---- MODULE Spec2Model ----
(***************************************************************************)
(* node-rfc2397: parsing and composing "data:" URLs (src/src/index.js).     *)
(*                                                                         *)
(* Conventions of the model                                                *)
(*   - a JavaScript string is a sequence of UTF-16 code units (naturals);  *)
(*   - a Buffer is a sequence of bytes 0..255;                             *)
(*   - a JavaScript object used as a mapping is the sequence of its own    *)
(*     properties [key, value] in creation order;                          *)
(*   - a call returns an outcome record whose field threw is "none",       *)
(*     "Error" or "TypeError".                                             *)
(***************************************************************************)
EXTENDS Integers, Sequences, FiniteSets, TLC

VARIABLES log

vars == <<log>>

(***************************************************************************)
(* Bounds of the model.                                                    *)
(***************************************************************************)
\* most parameter tokens of a parsed text / most parameters of a record
MaxParams == 2
\* most bytes of a composed payload
MaxData == 2
\* most bytes of an escaped sequence given to the byte codec
MaxCodec == 1

(***************************************************************************)
(* Sequence helpers.                                                       *)
(***************************************************************************)
Range(s) == {s[i] : i \in 1..Len(s)}

RECURSIVE SeqsUpTo(_, _)
SeqsUpTo(S, n) ==
    IF n = 0 THEN {<<>>}
    ELSE LET shorter == SeqsUpTo(S, n - 1)
         IN  shorter \cup {Append(s, x) : s \in {t \in shorter : Len(t) = n - 1}, x \in S}

\* Array.prototype.join
RECURSIVE Join(_, _)
Join(parts, sep) ==
    IF Len(parts) = 0 THEN <<>>
    ELSE IF Len(parts) = 1 THEN parts[1]
    ELSE parts[1] \o sep \o Join(Tail(parts), sep)

\* String.prototype.split(sep) for a one-character separator: always at least
\* one part, "" splits into [""]
RECURSIVE SplitFrom(_, _, _, _, _)
SplitFrom(s, sep, i, cur, acc) ==
    IF i > Len(s) THEN Append(acc, cur)
    ELSE IF s[i] = sep THEN SplitFrom(s, sep, i + 1, <<>>, Append(acc, cur))
    ELSE SplitFrom(s, sep, i + 1, Append(cur, s[i]), acc)

Split(s, sep) == SplitFrom(s, sep, 1, <<>>, <<>>)

(***************************************************************************)
(* rfc3986-regexp.js                                                       *)
(***************************************************************************)
\* /[A-Za-z0-9\-\._~]/ on one character
unreserved(c) ==
    \/ c \in 65..90
    \/ c \in 97..122
    \/ c \in 48..57
    \/ c \in {45, 46, 95, 126}

HexDigit(c) == c \in 48..57 \/ c \in 65..70 \/ c \in 97..102

\* /%[A-Fa-f0-9]{2}/ matching at position i of s
escapedAt(s, i) ==
    /\ i + 2 <= Len(s)
    /\ s[i] = 37
    /\ HexDigit(s[i + 1])
    /\ HexDigit(s[i + 2])

\* part.match(escaped): the pattern occurs somewhere in s
escaped(s) == \E i \in 1..Len(s) : escapedAt(s, i)

(***************************************************************************)
(* Buffer conversions of the runtime.                                      *)
(***************************************************************************)
HexVal(c) ==
    IF c \in 48..57 THEN c - 48
    ELSE IF c \in 65..70 THEN c - 55
    ELSE c - 87

\* Buffer.from(s, "hex"): pairs of hex digits, stopping at the first bad pair
RECURSIVE BufferFromHex(_)
BufferFromHex(s) ==
    IF Len(s) < 2 \/ ~HexDigit(s[1]) \/ ~HexDigit(s[2]) THEN <<>>
    ELSE <<16 * HexVal(s[1]) + HexVal(s[2])>> \o BufferFromHex(SubSeq(s, 3, Len(s)))

\* Buffer.from(s, "ascii"): the low byte of every code unit
BufferFromAscii(s) == [i \in 1..Len(s) |-> s[i] % 256]

\* Buffer.from(s) of a string: UTF-8 (no surrogates occur in the model)
RECURSIVE BufferFromString(_)
BufferFromString(s) ==
    IF Len(s) = 0 THEN <<>>
    ELSE LET c == s[1]
             enc == IF c < 128 THEN <<c>>
                    ELSE IF c < 2048 THEN <<192 + (c \div 64), 128 + (c % 64)>>
                    ELSE <<224 + (c \div 4096), 128 + ((c \div 64) % 64), 128 + (c % 64)>>
         IN  enc \o BufferFromString(Tail(s))

Continuation(b) == b \in 128..191

\* buffer.toString(): UTF-8 decoding, U+FFFD for every ill-formed byte.
\* One-, two- and three-byte forms; the model never builds a buffer holding a
\* truncated three-byte form or a four-byte lead.
RECURSIVE BufferToString(_)
BufferToString(b) ==
    IF Len(b) = 0 THEN <<>>
    ELSE IF b[1] < 128 THEN <<b[1]>> \o BufferToString(Tail(b))
    ELSE IF b[1] \in 194..223 /\ Len(b) >= 2 /\ Continuation(b[2])
         THEN <<(b[1] - 192) * 64 + (b[2] - 128)>> \o BufferToString(SubSeq(b, 3, Len(b)))
    ELSE IF /\ b[1] \in 224..239
            /\ Len(b) >= 3
            /\ Continuation(b[2])
            /\ Continuation(b[3])
            /\ (b[1] = 224 => b[2] >= 160)
            /\ (b[1] = 237 => b[2] <= 159)
         THEN <<(b[1] - 224) * 4096 + (b[2] - 128) * 64 + (b[3] - 128)>>
              \o BufferToString(SubSeq(b, 4, Len(b)))
    ELSE <<65533>> \o BufferToString(Tail(b))

(***************************************************************************)
(* Outcomes of a call.                                                     *)
(***************************************************************************)
NoInfo == [base64 |-> "undefined", mime |-> <<>>, parameters |-> <<>>,
           data |-> [isBuffer |-> FALSE, bytes |-> <<>>]]

Throw(kind, msg) ==
    [threw |-> kind, message |-> msg, text |-> <<>>, bytes |-> <<>>, info |-> NoInfo]

ReturnBytes(b) ==
    [threw |-> "none", message |-> "", text |-> <<>>, bytes |-> b, info |-> NoInfo]

ReturnText(t) ==
    [threw |-> "none", message |-> "", text |-> t, bytes |-> <<>>, info |-> NoInfo]

ReturnInfo(i) ==
    [threw |-> "none", message |-> "", text |-> <<>>, bytes |-> <<>>, info |-> i]

(***************************************************************************)
(* pct_decode                                                              *)
(***************************************************************************)
\* ^(?:unreserved|escaped)*$ from position i on
RECURSIVE correctly_encoded_from(_, _)
correctly_encoded_from(s, i) ==
    IF i > Len(s) THEN TRUE
    ELSE IF unreserved(s[i]) THEN correctly_encoded_from(s, i + 1)
    ELSE IF escapedAt(s, i) THEN correctly_encoded_from(s, i + 3)
    ELSE FALSE

pct_correctly_encoded(s) == correctly_encoded_from(s, 1)

\* urlencoded.split(splitter): the text between the triplets, triplets kept
RECURSIVE splitter_from(_, _, _, _)
splitter_from(s, i, cur, acc) ==
    IF i > Len(s) THEN Append(acc, cur)
    ELSE IF escapedAt(s, i)
         THEN splitter_from(s, i + 3, <<>>, acc \o <<cur, SubSeq(s, i, i + 2)>>)
    ELSE splitter_from(s, i + 1, Append(cur, s[i]), acc)

pct_split(s) == splitter_from(s, 1, <<>>, <<>>)

pct_part(part) ==
    IF escaped(part) THEN BufferFromHex(Tail(part))
    ELSE BufferFromAscii(part)

RECURSIVE BufferConcat(_)
BufferConcat(buffers) ==
    IF Len(buffers) = 0 THEN <<>>
    ELSE buffers[1] \o BufferConcat(Tail(buffers))

pct_decode(urlencoded) ==
    IF ~pct_correctly_encoded(urlencoded) THEN Throw("Error", "malformed data")
    ELSE LET parts == pct_split(urlencoded)
         IN  ReturnBytes(BufferConcat([i \in 1..Len(parts) |-> pct_part(parts[i])]))

(***************************************************************************)
(* pct_encode                                                              *)
(***************************************************************************)
HexChar(d) == IF d < 10 THEN 48 + d ELSE 87 + d

\* pct_hex without the padding of line 51-52: 0x1 becomes "1"
pct_hex_unpadded(byte) ==
    IF byte < 16 THEN <<HexChar(byte)>>
    ELSE <<HexChar(byte \div 16), HexChar(byte % 16)>>

\* byte.toString(16), left-padded to two digits
pct_hex(byte) ==
    IF byte < 16 THEN <<48, HexChar(byte)>>
    ELSE <<HexChar(byte \div 16), HexChar(byte % 16)>>

pct_encode_byte(byte) ==
    IF unreserved(byte) THEN <<byte>>
    ELSE <<37>> \o pct_hex(byte)

RECURSIVE pct_encode(_)
pct_encode(bytes) ==
    IF Len(bytes) = 0 THEN <<>>
    ELSE pct_encode(SubSeq(bytes, 1, Len(bytes) - 1)) \o pct_encode_byte(bytes[Len(bytes)])

\* pct_encode of a string argument: Buffer.from(arg) encodes it as UTF-8 first
pct_encode_string(str) == pct_encode(BufferFromString(str))

(***************************************************************************)
(* base64_decode                                                           *)
(***************************************************************************)
\* [A-Za-z0-9+\/]
Base64Char(c) ==
    \/ c \in 65..90
    \/ c \in 97..122
    \/ c \in 48..57
    \/ c \in {43, 47}

\* length of the longest prefix of s made of alphabet characters
RECURSIVE Base64Body(_, _)
Base64Body(s, i) ==
    IF i <= Len(s) /\ Base64Char(s[i]) THEN Base64Body(s, i + 1)
    ELSE i - 1

\* /^[A-Za-z0-9+\/]*=?=?$/
base64_correctly_encoded(s) ==
    LET n == Base64Body(s, 1)
    IN  \/ n = Len(s)
        \/ n + 1 = Len(s) /\ s[n + 1] = 61
        \/ n + 2 = Len(s) /\ s[n + 1] = 61 /\ s[n + 2] = 61

Base64Val(c) ==
    IF c \in 65..90 THEN c - 65
    ELSE IF c \in 97..122 THEN c - 71
    ELSE IF c \in 48..57 THEN c + 4
    ELSE IF c = 43 THEN 62
    ELSE 63

\* Buffer.from(s, "base64") on the alphabet characters of s: three bytes for
\* four characters, two for a final three, one for a final two
RECURSIVE BufferFromBase64(_)
BufferFromBase64(body) ==
    IF Len(body) < 2 THEN <<>>
    ELSE LET a == Base64Val(body[1])
             b == Base64Val(body[2])
             first == <<a * 4 + (b \div 16)>>
         IN  IF Len(body) = 2 THEN first
             ELSE LET c == Base64Val(body[3])
                      second == <<(b % 16) * 16 + (c \div 4)>>
                  IN  IF Len(body) = 3 THEN first \o second
                      ELSE first \o second
                           \o <<(c % 4) * 64 + Base64Val(body[4])>>
                           \o BufferFromBase64(SubSeq(body, 5, Len(body)))

base64_decode(base64encoded) ==
    IF Len(base64encoded) % 4 # 0 \/ ~base64_correctly_encoded(base64encoded)
    THEN Throw("Error", "malformed data")
    ELSE ReturnBytes(BufferFromBase64(
             SubSeq(base64encoded, 1, Base64Body(base64encoded, 1))))

(***************************************************************************)
(* base64_encode                                                           *)
(***************************************************************************)
Base64Digit(v) ==
    IF v < 26 THEN 65 + v
    ELSE IF v < 52 THEN 71 + v
    ELSE IF v < 62 THEN v - 4
    ELSE IF v = 62 THEN 43
    ELSE 47

\* buff.toString("base64"): RFC 4648 with "=" padding
RECURSIVE base64_encode(_)
base64_encode(bytes) ==
    IF Len(bytes) = 0 THEN <<>>
    ELSE IF Len(bytes) = 1
         THEN <<Base64Digit(bytes[1] \div 4), Base64Digit((bytes[1] % 4) * 16), 61, 61>>
    ELSE IF Len(bytes) = 2
         THEN <<Base64Digit(bytes[1] \div 4),
                Base64Digit((bytes[1] % 4) * 16 + (bytes[2] \div 16)),
                Base64Digit((bytes[2] % 16) * 4), 61>>
    ELSE <<Base64Digit(bytes[1] \div 4),
           Base64Digit((bytes[1] % 4) * 16 + (bytes[2] \div 16)),
           Base64Digit((bytes[2] % 16) * 4 + (bytes[3] \div 64)),
           Base64Digit(bytes[3] % 64)>>
         \o base64_encode(SubSeq(bytes, 4, Len(bytes)))

(***************************************************************************)
(* parseSync                                                               *)
(***************************************************************************)
STR_data == <<100, 97, 116, 97, 58>>                              \* "data:"
STR_base64 == <<98, 97, 115, 101, 54, 52>>                        \* "base64"
STR_text_plain == <<116, 101, 120, 116, 47, 112, 108, 97, 105, 110>> \* "text/plain"
STR_charset == <<99, 104, 97, 114, 115, 101, 116>>                \* "charset"
STR_US_ASCII == <<85, 83, 45, 65, 83, 67, 73, 73>>                \* "US-ASCII"
STR_toString == <<116, 111, 83, 116, 114, 105, 110, 103>>         \* "toString"

\* the value of a property that is not there; no string equals it
UNDEFINED == <<-1>>

\* the characters "." does not match: LF, CR, U+2028, U+2029
LineTerminator(c) == c \in {10, 13, 8232, 8233}

\* position of the first "," at or after i, 0 when there is none
RECURSIVE FirstComma(_, _)
FirstComma(s, i) ==
    IF i > Len(s) THEN 0
    ELSE IF s[i] = 44 THEN i
    ELSE FirstComma(s, i + 1)

\* dataurl.match(/^data:(.*?),(.*)$/): the prefix, a comma after it, and no
\* line terminator anywhere after the prefix; group 1 ends at the first comma
dataurl_matches(dataurl) ==
    /\ Len(dataurl) >= 5
    /\ SubSeq(dataurl, 1, 5) = STR_data
    /\ FirstComma(dataurl, 6) # 0
    /\ \A i \in 6..Len(dataurl) : ~LineTerminator(dataurl[i])

dataurl_group1(dataurl) == SubSeq(dataurl, 6, FirstComma(dataurl, 6) - 1)

dataurl_group2(dataurl) == SubSeq(dataurl, FirstComma(dataurl, 6) + 1, Len(dataurl))

\* the property names every object literal inherits from Object.prototype
ObjectPrototypeKeys ==
    { <<99, 111, 110, 115, 116, 114, 117, 99, 116, 111, 114>>,               \* constructor
      STR_toString,                                                          \* toString
      <<118, 97, 108, 117, 101, 79, 102>>,                                   \* valueOf
      <<104, 97, 115, 79, 119, 110, 80, 114, 111, 112, 101, 114, 116, 121>>, \* hasOwnProperty
      <<105, 115, 80, 114, 111, 116, 111, 116, 121, 112, 101, 79, 102>>,     \* isPrototypeOf
      <<112, 114, 111, 112, 101, 114, 116, 121, 73, 115, 69, 110, 117, 109,
        101, 114, 97, 98, 108, 101>>,                                        \* propertyIsEnumerable
      <<116, 111, 76, 111, 99, 97, 108, 101, 83, 116, 114, 105, 110, 103>>,  \* toLocaleString
      <<95, 95, 112, 114, 111, 116, 111, 95, 95>>,                           \* __proto__
      <<95, 95, 100, 101, 102, 105, 110, 101, 71, 101, 116, 116, 101, 114, 95, 95>>,
      <<95, 95, 100, 101, 102, 105, 110, 101, 83, 101, 116, 116, 101, 114, 95, 95>>,
      <<95, 95, 108, 111, 111, 107, 117, 112, 71, 101, 116, 116, 101, 114, 95, 95>>,
      <<95, 95, 108, 111, 111, 107, 117, 112, 83, 101, 116, 116, 101, 114, 95, 95>> }

OwnKeys(parameters) == {parameters[i].key : i \in 1..Len(parameters)}

\* attribute in parameters, for parameters grown from the literal {}
InObject(attribute, parameters) ==
    \/ attribute \in OwnKeys(parameters)
    \/ attribute \in ObjectPrototypeKeys

\* parse_parameter with the test of line 120 weakened to "fewer than two
\* parts": a token with several "=" is taken by its first two parts
parse_parameter_lenient(parameters, parameter) ==
    LET splitted == Split(parameter, 61)
    IN  IF Len(splitted) < 2 THEN Throw("Error", "invalid dataurl parameter")
        ELSE LET attribute == pct_decode(splitted[1])
                 value == pct_decode(splitted[2])
             IN  IF attribute.threw # "none" THEN attribute
                 ELSE IF value.threw # "none" THEN value
                 ELSE IF ~InObject(BufferToString(attribute.bytes), parameters)
                      THEN ReturnInfo([NoInfo EXCEPT !.parameters =
                               Append(parameters,
                                      [key |-> BufferToString(attribute.bytes),
                                       value |-> BufferToString(value.bytes)])])
                 ELSE ReturnInfo([NoInfo EXCEPT !.parameters = parameters])

\* one step of the reduce callback: an outcome whose info.parameters is the
\* accumulator after the token
parse_parameter(parameters, parameter) ==
    LET splitted == Split(parameter, 61)
    IN  IF Len(splitted) # 2 THEN Throw("Error", "invalid dataurl parameter")
        ELSE LET attribute == pct_decode(splitted[1])
                 value == pct_decode(splitted[2])
             IN  IF attribute.threw # "none" THEN attribute
                 ELSE IF value.threw # "none" THEN value
                 ELSE IF ~InObject(BufferToString(attribute.bytes), parameters)
                      THEN ReturnInfo([NoInfo EXCEPT !.parameters =
                               Append(parameters,
                                      [key |-> BufferToString(attribute.bytes),
                                       value |-> BufferToString(value.bytes)])])
                 ELSE ReturnInfo([NoInfo EXCEPT !.parameters = parameters])

\* mediatype.reduce(..., {}) over the tokens from position i on
RECURSIVE parse_parameters(_, _, _)
parse_parameters(tokens, i, parameters) ==
    IF i > Len(tokens) THEN ReturnInfo([NoInfo EXCEPT !.parameters = parameters])
    ELSE LET step == parse_parameter(parameters, tokens[i])
         IN  IF step.threw # "none" THEN step
             ELSE parse_parameters(tokens, i + 1, step.info.parameters)

\* the mediatype array once the trailing "base64" is popped
parse_has_base64(mediatype) == mediatype[Len(mediatype)] = STR_base64

parse_tokens(mediatype) ==
    IF parse_has_base64(mediatype) THEN SubSeq(mediatype, 1, Len(mediatype) - 1)
    ELSE mediatype

\* mediatype.shift(): undefined on an empty array
parse_mime(tokens) == IF Len(tokens) = 0 THEN UNDEFINED ELSE tokens[1]

\* parse_defaults with the charset test of line 142 dropped: every omitted
\* mime becomes text/plain
parse_defaults_any_parameter(mime, parameters) ==
    LET mime_omitted == (Len(mime) = 0)
    IN  IF mime_omitted /\ Len(parameters) = 0
        THEN [mime |-> STR_text_plain,
              parameters |-> <<[key |-> STR_charset, value |-> STR_US_ASCII]>>]
        ELSE IF mime_omitted
        THEN [mime |-> STR_text_plain, parameters |-> parameters]
        ELSE [mime |-> mime, parameters |-> parameters]

\* lines 136-146: the defaults of RFC 2397 applied to the extracted pair
parse_defaults(mime, parameters) ==
    LET mime_omitted == (Len(mime) = 0)
    IN  IF mime_omitted /\ Len(parameters) = 0
        THEN [mime |-> STR_text_plain,
              parameters |-> <<[key |-> STR_charset, value |-> STR_US_ASCII]>>]
        ELSE IF mime_omitted /\ InObject(STR_charset, parameters)
        THEN [mime |-> STR_text_plain, parameters |-> parameters]
        ELSE [mime |-> mime, parameters |-> parameters]

\* line 148: the decoder the base64 flag selects
parse_data(base64, data) ==
    IF base64 THEN base64_decode(data) ELSE pct_decode(data)

parseSync(dataurl) ==
    IF ~dataurl_matches(dataurl) THEN Throw("Error", "malformed dataurl")
    ELSE LET mediatype == Split(dataurl_group1(dataurl), 59)
             base64 == parse_has_base64(mediatype)
             tokens == parse_tokens(mediatype)
             mime == parse_mime(tokens)
             reduced == parse_parameters(tokens, 2, <<>>)
         IN  IF reduced.threw # "none" THEN reduced
             ELSE IF mime = UNDEFINED
                  THEN Throw("TypeError", "Cannot read properties of undefined")
             ELSE LET defaulted == parse_defaults(mime, reduced.info.parameters)
                      data == parse_data(base64, dataurl_group2(dataurl))
                  IN  IF data.threw # "none" THEN data
                      ELSE ReturnInfo(
                               [base64 |-> IF base64 THEN "true" ELSE "undefined",
                                mime |-> defaulted.mime,
                                parameters |-> defaulted.parameters,
                                data |-> [isBuffer |-> TRUE, bytes |-> data.bytes]])

(***************************************************************************)
(* composeSync                                                             *)
(***************************************************************************)
Digit(c) == c \in 48..57

\* a < b for two digit strings of the same length
RECURSIVE DigitsLess(_, _)
DigitsLess(a, b) ==
    IF Len(a) = 0 THEN FALSE
    ELSE IF a[1] # b[1] THEN a[1] < b[1]
    ELSE DigitsLess(Tail(a), Tail(b))

\* numeric order of canonical decimal strings
NumericLess(a, b) ==
    \/ Len(a) < Len(b)
    \/ Len(a) = Len(b) /\ DigitsLess(a, b)

\* an array index: the canonical decimal form of an integer below 2^32 - 1
IsArrayIndex(key) ==
    /\ Len(key) >= 1
    /\ \A i \in 1..Len(key) : Digit(key[i])
    /\ (Len(key) = 1 \/ key[1] # 48)
    /\ NumericLess(key, <<52, 50, 57, 52, 57, 54, 55, 50, 57, 53>>)

RECURSIVE SortByIndex(_)
SortByIndex(props) ==
    IF props = {} THEN <<>>
    ELSE LET least == CHOOSE p \in props :
                          \A q \in props : q = p \/ NumericLess(p.key, q.key)
         IN  <<least>> \o SortByIndex(props \ {least})

IndexProperty(p) == IsArrayIndex(p.key)

NamedProperty(p) == ~IsArrayIndex(p.key)

\* Object.keys(parameters), as the properties in enumeration order: array
\* indices ascending, then the other keys in creation order
ObjectKeys(parameters) ==
    SortByIndex(Range(SelectSeq(parameters, IndexProperty)))
    \o SelectSeq(parameters, NamedProperty)

\* compose_token with the value pushed as it is, not escaped
compose_token_raw_value(property) ==
    pct_encode_string(property.key) \o <<61>> \o property.value

\* lines 186-188: one pushed token
compose_token(property) ==
    pct_encode_string(property.key) \o <<61>> \o pct_encode_string(property.value)

\* info.mime || ""
compose_mime(info) == IF info.mime = UNDEFINED THEN <<>> ELSE info.mime

compose_mediatype(info) ==
    LET keys == ObjectKeys(info.parameters)
    IN  <<compose_mime(info)>> \o [i \in 1..Len(keys) |-> compose_token(keys[i])]

\* if (info.base64)
Truthy(flag) == flag = "true"

compose_data(info) ==
    IF Truthy(info.base64) THEN base64_encode(info.data.bytes)
    ELSE pct_encode(info.data.bytes)

compose_base64(info) ==
    IF Truthy(info.base64) THEN <<59>> \o STR_base64 ELSE <<>>

composeSync(info) ==
    IF ~info.data.isBuffer
    THEN Throw("TypeError", "expected info.data to be a Buffer")
    ELSE ReturnText(STR_data \o Join(compose_mediatype(info), <<59>>)
                    \o compose_base64(info) \o <<44>> \o compose_data(info))

(***************************************************************************)
(* The calls made: each entry of log is one call with its argument and its *)
(* outcome.                                                                *)
(***************************************************************************)
ArgText(t) == [text |-> t, info |-> NoInfo, bytes |-> <<>>]

ArgInfo(i) == [text |-> <<>>, info |-> i, bytes |-> <<>>]

ArgBytes(b) == [text |-> <<>>, info |-> NoInfo, bytes |-> b]

Call(fn, arg, out) == [fn |-> fn, arg |-> arg, out |-> out]

Last == log[Len(log)]

\* most calls made in a row
MaxCalls == 3

(***************************************************************************)
(* Texts given to parseSync: "data:" mediatype "," payload, the mediatype  *)
(* made of a mime token and up to MaxParams further tokens.                *)
(***************************************************************************)
MimeTokens ==
    { <<>>,                                       \* omitted
      <<97, 47, 98>>,                             \* a/b
      STR_base64 }                                \* base64

ParamTokens ==
    { <<97, 61, 49>>,                             \* a=1
      <<97, 61, 50>>,                             \* a=2
      <<37, 54, 49, 61, 51>>,                     \* %61=3
      <<99, 104, 97, 114, 115, 101, 116, 61, 117>>, \* charset=u
      <<116, 111, 83, 116, 114, 105, 110, 103, 61, 49>>, \* toString=1
      <<98>>,                                     \* b
      <<97, 61, 49, 61, 50>>,                     \* a=1=2
      <<37, 52, 61, 49>>,                         \* %4=1
      <<37, 102, 102, 61, 37, 99, 51, 37, 97, 57>>, \* %ff=%c3%a9
      STR_base64 }                                \* base64

PayloadTexts ==
    { <<>>,
      <<81, 81, 61, 61>>,                         \* QQ==
      <<81, 85, 73, 61>>,                         \* QUI=
      <<81, 82, 61, 61>>,                         \* QR==
      <<37, 52, 49, 97>>,                         \* %41a
      <<97, 37, 52>>,                             \* a%4
      <<120, 44, 121>>,                           \* x,y
      <<97, 10, 98>>,                             \* a LF b
      <<126, 37, 102, 70>> }                      \* ~%fF

MalformedTexts ==
    { <<100, 97, 116, 58, 44, 97>>,               \* dat:,a
      <<100, 97, 116, 97, 58, 97, 47, 98>> }      \* data:a/b

ParseInputs ==
    { STR_data \o Join(<<mime>> \o tokens, <<59>>) \o <<44>> \o payload :
          mime \in MimeTokens,
          tokens \in SeqsUpTo(ParamTokens, MaxParams),
          payload \in PayloadTexts }
    \cup MalformedTexts

(***************************************************************************)
(* Records given to composeSync.                                           *)
(***************************************************************************)
ComposeMimes ==
    { <<>>,
      UNDEFINED,
      <<97, 47, 98>>,                             \* a/b
      STR_base64 }

ComposeProperties ==
    { [key |-> <<97>>, value |-> <<117>>],        \* a: u
      [key |-> STR_toString, value |-> <<49>>],   \* toString: 1
      [key |-> <<50>>, value |-> <<120>>],        \* 2: x
      [key |-> <<49, 48>>, value |-> <<121>>],    \* 10: y
      [key |-> <<233, 59>>, value |-> <<61, 65533>>] }

PayloadBytes == {0, 65, 255}

\* objects: sequences of properties with distinct keys
ComposeParameters ==
    { ps \in SeqsUpTo(ComposeProperties, MaxParams) :
          \A i, j \in 1..Len(ps) : i # j => ps[i].key # ps[j].key }

ComposeData ==
    { [isBuffer |-> TRUE, bytes |-> b] : b \in SeqsUpTo(PayloadBytes, MaxData) }
    \cup { [isBuffer |-> FALSE, bytes |-> <<>>] }

ComposeInputs ==
    { [base64 |-> flag, mime |-> mime, parameters |-> ps, data |-> data] :
          flag \in {"true", "false"},
          mime \in ComposeMimes,
          ps \in ComposeParameters,
          data \in ComposeData }

(***************************************************************************)
(* Byte sequences given to the codec.                                      *)
(***************************************************************************)
CodecInputs ==
    SeqsUpTo(0..255, MaxCodec) \cup SeqsUpTo(PayloadBytes \cup {37, 126}, MaxData + 1)

(***************************************************************************)
(* Actions.                                                                *)
(***************************************************************************)
Init == log = <<>>

\* a caller parses a text
ParseText ==
    /\ log = <<>>
    /\ \E dataurl \in ParseInputs :
           log' = <<Call("parseSync", ArgText(dataurl), parseSync(dataurl))>>

\* a caller composes a record
ComposeRecord ==
    /\ log = <<>>
    /\ \E info \in ComposeInputs :
           log' = <<Call("composeSync", ArgInfo(info), composeSync(info))>>

\* the record parseSync returned is composed
ComposeParsed ==
    /\ Len(log) \in 1..(MaxCalls - 1)
    /\ Last.fn = "parseSync"
    /\ Last.out.threw = "none"
    /\ log' = Append(log, Call("composeSync", ArgInfo(Last.out.info),
                               composeSync(Last.out.info)))

\* the text composeSync returned is parsed
ParseComposed ==
    /\ Len(log) \in 1..(MaxCalls - 1)
    /\ Last.fn = "composeSync"
    /\ Last.out.threw = "none"
    /\ log' = Append(log, Call("parseSync", ArgText(Last.out.text),
                               parseSync(Last.out.text)))

\* a caller escapes a byte sequence
EncodeBytes ==
    /\ log = <<>>
    /\ \E bytes \in CodecInputs :
           log' = <<Call("pct_encode", ArgBytes(bytes), ReturnText(pct_encode(bytes)))>>

\* the escaped text is decoded
DecodeEncoded ==
    /\ Len(log) = 1
    /\ Last.fn = "pct_encode"
    /\ log' = Append(log, Call("pct_decode", ArgText(Last.out.text),
                               pct_decode(Last.out.text)))

NextParse == ParseText \/ ComposeParsed \/ ParseComposed

NextCompose == ComposeRecord \/ ParseComposed

NextCodec == EncodeBytes \/ DecodeEncoded

SpecParse == Init /\ [][NextParse]_vars

SpecCompose == Init /\ [][NextCompose]_vars

SpecCodec == Init /\ [][NextCodec]_vars

(***************************************************************************)
(* What the claims speak of, read off the arguments and outcomes in log.   *)
(***************************************************************************)
Calls(fn) == {i \in 1..Len(log) : log[i].fn = fn}

Returned(i) == log[i].out.threw = "none"

\* MalformedInput is the Error thrown with one of the three messages
MalformedInput(i) == log[i].out.threw = "Error"

\* the ";"-separated tokens of the media-type segment of a matching text
MediatypeOf(dataurl) == Split(dataurl_group1(dataurl), 59)

MarkedBase64(dataurl) ==
    MediatypeOf(dataurl)[Len(MediatypeOf(dataurl))] = STR_base64

\* the tokens after the mime token, a trailing "base64" marker excluded
ParameterTokensOf(dataurl) ==
    LET m == MediatypeOf(dataurl)
    IN  SubSeq(m, 2, IF MarkedBase64(dataurl) THEN Len(m) - 1 ELSE Len(m))

CountEquals(token) == Cardinality({i \in 1..Len(token) : token[i] = 61})

DecodedName(token) == BufferToString(pct_decode(Split(token, 61)[1]).bytes)

DecodedValue(token) == BufferToString(pct_decode(Split(token, 61)[2]).bytes)

\* the mapping as a set of pairs: every name with the value of its first token
FirstWins(tokens) ==
    { [key |-> DecodedName(tokens[i]), value |-> DecodedValue(tokens[i])] :
          i \in {k \in 1..Len(tokens) :
                    \A j \in 1..(k - 1) : DecodedName(tokens[j]) # DecodedName(tokens[k])} }

Mapping(parameters) == Range(parameters)

SameInfo(a, b) ==
    /\ Truthy(a.base64) = Truthy(b.base64)
    /\ a.mime = b.mime
    /\ Mapping(a.parameters) = Mapping(b.parameters)
    /\ a.data = b.data

\* the text the composer is said to return, the tokens taken in a given order
ComposedFrom(info, order) ==
    STR_data
    \o Join(<<IF info.mime = UNDEFINED THEN <<>> ELSE info.mime>>
            \o [i \in 1..Len(order) |->
                   pct_encode_string(order[i].key) \o <<61>>
                   \o pct_encode_string(order[i].value)],
            <<59>>)
    \o (IF info.base64 = "true" THEN <<59>> \o STR_base64 ELSE <<>>)
    \o <<44>>
    \o (IF info.base64 = "true" THEN base64_encode(info.data.bytes)
        ELSE pct_encode(info.data.bytes))

\* the arrangements of the properties in which array-index keys come first
\* in ascending numeric order and the other keys keep their insertion order
EnumerationOrders(parameters) ==
    LET n == Len(parameters)
        ok(f) == \A i, j \in 1..n :
                     i < j =>
                         LET a == parameters[f[i]].key
                             b == parameters[f[j]].key
                         IN  /\ IsArrayIndex(b) => IsArrayIndex(a) /\ NumericLess(a, b)
                             /\ ~IsArrayIndex(a) => ~IsArrayIndex(b) /\ f[i] < f[j]
    IN  { [i \in 1..n |-> parameters[f[i]]] :
              f \in {g \in [1..n -> 1..n] :
                        (\A i, j \in 1..n : i # j => g[i] # g[j]) /\ ok(g)} }

(***************************************************************************)
(* The claims.                                                             *)
(***************************************************************************)

\* C1: for every record with a byte-sequence payload whose mimeType is
\* non-empty or whose parameters mapping is non-empty, parsing the composed
\* text succeeds and gives the record back field by field.
C1_ParseInvertsCompose ==
    \A i \in Calls("composeSync") :
        LET r == log[i].arg.info
        IN  ( /\ i + 1 <= Len(log)
              /\ r.data.isBuffer
              /\ r.mime # UNDEFINED
              /\ (Len(r.mime) > 0 \/ Len(r.parameters) > 0) )
            => /\ Returned(i + 1)
               /\ SameInfo(log[i + 1].out.info, r)

\* C2: whenever parse succeeds the returned mimeType is a non-empty text.
C2_MimeTypeNeverEmpty ==
    \A i \in Calls("parseSync") :
        Returned(i) => Len(log[i].out.info.mime) > 0

\* C3: parse returns a record or fails with MalformedInput, never with
\* another kind of error.
C3_ParseFailsOnlyMalformed ==
    \A i \in Calls("parseSync") : Returned(i) \/ MalformedInput(i)

\* C4: whenever parse succeeds the returned mapping holds exactly the decoded
\* names of the parameter tokens, each with the decoded value of the first
\* token carrying it, plus charset = US-ASCII only under full defaulting.
C4_FirstOccurrenceWins ==
    \A i \in Calls("parseSync") :
        Returned(i) =>
            LET dataurl == log[i].arg.text
                tokens == ParameterTokensOf(dataurl)
            IN  Mapping(log[i].out.info.parameters) =
                    IF MediatypeOf(dataurl)[1] = <<>> /\ Len(tokens) = 0
                    THEN {[key |-> STR_charset, value |-> STR_US_ASCII]}
                    ELSE FirstWins(tokens)

\* C5: defaulting.  With the mime token empty: (a) no parameter extracted
\* gives text/plain with {charset: US-ASCII}; (b) a charset among the
\* extracted parameters gives text/plain and the parameters unchanged;
\* (c) in every other case mime and parameters are returned as extracted.
C5_Defaulting ==
    \A i \in Calls("parseSync") :
        Returned(i) =>
            LET dataurl == log[i].arg.text
                mime == MediatypeOf(dataurl)[1]
                extracted == parse_parameters(
                                 <<mime>> \o ParameterTokensOf(dataurl), 2, <<>>).info.parameters
                info == log[i].out.info
            IN  IF mime = <<>> /\ extracted = <<>>
                THEN /\ info.mime = STR_text_plain
                     /\ Mapping(info.parameters) =
                            {[key |-> STR_charset, value |-> STR_US_ASCII]}
                ELSE IF mime = <<>> /\ STR_charset \in OwnKeys(extracted)
                THEN /\ info.mime = STR_text_plain
                     /\ info.parameters = extracted
                ELSE /\ info.mime = mime
                     /\ info.parameters = extracted

\* C5 happens: a text with no mime token and a charset parameter was parsed,
\* and another parameter came with it
C5_Witness ==
    \E i \in Calls("parseSync") :
        /\ Returned(i)
        /\ MediatypeOf(log[i].arg.text)[1] = <<>>
        /\ STR_charset \in OwnKeys(log[i].out.info.parameters)
        /\ Len(log[i].out.info.parameters) = 2
        /\ log[i].out.info.mime = STR_text_plain

\* C6: the escaped form of every byte sequence passes the decoder's
\* whole-string validator and decodes to the same bytes.
C6_PercentRoundTrip ==
    \A i \in Calls("pct_decode") :
        /\ pct_correctly_encoded(log[i].arg.text)
        /\ Returned(i)
        /\ log[i].out.bytes = log[i - 1].arg.bytes

\* C6 happens: a sequence with an escaped byte below 0x10 was encoded and
\* decoded
C6_Witness ==
    \E i \in Calls("pct_decode") :
        /\ Len(log[i - 1].arg.bytes) >= 1
        /\ log[i - 1].arg.bytes[1] < 16
        /\ Len(log[i].arg.text) = 3 * Len(log[i - 1].arg.bytes)

\* C7 as claimed: compose throws TypeError exactly when the payload is no
\* byte sequence, and otherwise returns "data:" mime;key=value... [;base64]
\* "," payload with the parameter tokens in insertion order.
C7_ComposeInsertionOrder ==
    \A i \in Calls("composeSync") :
        LET r == log[i].arg.info
        IN  /\ log[i].out.threw = "TypeError" <=> ~r.data.isBuffer
            /\ r.data.isBuffer =>
                   /\ Returned(i)
                   /\ log[i].out.text = ComposedFrom(r, r.parameters)

\* C7 as amended: the same, the parameter tokens in the order Object.keys
\* enumerates the mapping: keys that are array indices first, in ascending
\* numeric order, then the other keys in insertion order.
C7_ComposeEnumerationOrder ==
    \A i \in Calls("composeSync") :
        LET r == log[i].arg.info
        IN  /\ log[i].out.threw = "TypeError" <=> ~r.data.isBuffer
            /\ r.data.isBuffer =>
                   /\ Returned(i)
                   /\ \E order \in EnumerationOrders(r.parameters) :
                          log[i].out.text = ComposedFrom(r, order)

\* C7 happens: a record with a byte payload, the base64 flag and an
\* array-index key inserted after another key was composed
C7_Witness ==
    \E i \in Calls("composeSync") :
        LET r == log[i].arg.info
        IN  /\ r.data.isBuffer
            /\ Len(r.data.bytes) >= 1
            /\ r.base64 = "true"
            /\ Len(r.parameters) = 2
            /\ ~IsArrayIndex(r.parameters[1].key)
            /\ IsArrayIndex(r.parameters[2].key)
            /\ Returned(i)

\* C8: the payload text is decoded with base64Decode exactly when the last
\* token of the media-type segment is "base64" and with percentDecode
\* otherwise, and parse fails with MalformedInput whenever the selected
\* validator rejects the payload text.
C8_PayloadValidated ==
    \A i \in Calls("parseSync") :
        LET dataurl == log[i].arg.text
            payload == dataurl_group2(dataurl)
            rejected == IF MarkedBase64(dataurl)
                        THEN Len(payload) % 4 # 0 \/ ~base64_correctly_encoded(payload)
                        ELSE ~pct_correctly_encoded(payload)
        IN  dataurl_matches(dataurl) =>
                /\ rejected => MalformedInput(i)
                /\ Returned(i) =>
                       log[i].out.info.data.bytes =
                           IF MarkedBase64(dataurl) THEN base64_decode(payload).bytes
                           ELSE pct_decode(payload).bytes

\* the first parameter token that does not hold exactly one "="
FirstMisshapen(tokens) ==
    CHOOSE k \in 1..Len(tokens) :
        /\ CountEquals(tokens[k]) # 1
        /\ \A j \in 1..(k - 1) : CountEquals(tokens[j]) = 1

\* a token of the shape name=value whose name or value is not well escaped
Undecodable(token) ==
    /\ CountEquals(token) = 1
    /\ \/ ~pct_correctly_encoded(Split(token, 61)[1])
       \/ ~pct_correctly_encoded(Split(token, 61)[2])

\* C9 as claimed: a parameter token with no "=" or several makes parse fail
\* with MalformedInput("invalid dataurl parameter").
C9_MisshapenTokenMessage ==
    \A i \in Calls("parseSync") :
        LET dataurl == log[i].arg.text
        IN  ( /\ dataurl_matches(dataurl)
              /\ \E k \in 1..Len(ParameterTokensOf(dataurl)) :
                     CountEquals(ParameterTokensOf(dataurl)[k]) # 1 )
            => /\ MalformedInput(i)
               /\ log[i].out.message = "invalid dataurl parameter"

\* C9 as amended: such a token makes parse fail with MalformedInput, whatever
\* the payload is; the failure is "invalid dataurl parameter" unless a token
\* before the first such token has exactly one "=" and a name or value that
\* percentDecode rejects, and then it is that token's "malformed data".
C9_MisshapenTokenFails ==
    \A i \in Calls("parseSync") :
        LET dataurl == log[i].arg.text
            tokens == ParameterTokensOf(dataurl)
        IN  ( /\ dataurl_matches(dataurl)
              /\ \E k \in 1..Len(tokens) : CountEquals(tokens[k]) # 1 )
            => /\ MalformedInput(i)
               /\ log[i].out.message =
                      IF \E j \in 1..(FirstMisshapen(tokens) - 1) : Undecodable(tokens[j])
                      THEN "malformed data"
                      ELSE "invalid dataurl parameter"

\* C9 happens: a text whose only parameter token holds two "=" and whose
\* payload is not well escaped was parsed, and the token decided the failure
C9_Witness ==
    \E i \in Calls("parseSync") :
        LET dataurl == log[i].arg.text
        IN  /\ dataurl_matches(dataurl)
            /\ Len(ParameterTokensOf(dataurl)) = 1
            /\ CountEquals(ParameterTokensOf(dataurl)[1]) = 2
            /\ ~pct_correctly_encoded(dataurl_group2(dataurl))
            /\ log[i].out.message = "invalid dataurl parameter"

\* C10: whenever parse succeeds, composing its result does not raise, and
\* parsing the composed text succeeds and gives the same mimeType,
\* parameters, payload and base64 flag.
C10_NormalisationIdempotent ==
    \A i \in Calls("parseSync") :
        (Returned(i) /\ i + 1 <= Len(log)) =>
            /\ Returned(i + 1)
            /\ i + 2 <= Len(log) =>
                   /\ Returned(i + 2)
                   /\ SameInfo(log[i + 2].out.info, log[i].out.info)

====
